---- MODULE Spec2Model ----
(***************************************************************************)
(* A model of src/src/lib.rs: the recursive-descent parser Regex::from_str *)
(* (GrpNode::parse, CharClassNode::parse, the escape tables) and the       *)
(* tree-walking matcher Regex::match_str (one match_chars per node type).  *)
(*                                                                         *)
(* A char is a one-character string; a str is a sequence of chars.  A      *)
(* Chars iterator over a str s is the number of chars already consumed:    *)
(* next() at i < Len(s) yields s[i+1] and moves to i+1, next() at Len(s)   *)
(* yields None; clone and clone_from copy the number.                      *)
(***************************************************************************)
EXTENDS Integers, Sequences, FiniteSets, TLC

VARIABLES pattern, subject, pc, regex, itr, stack, ret, mr, result

vars == <<pattern, subject, pc, regex, itr, stack, ret, mr, result>>

-----------------------------------------------------------------------------
(* Bounds of the model.                                                    *)

\* longest enumerated pattern of the matcher specification
MaxPatLen == 3
\* longest enumerated subject
MaxSubjLen == 3
\* longest enumerated pattern of the parser specification
MaxParseLen == 4
\* longest enumerated subject of the specification with fairness
MaxFairLen == 2

-----------------------------------------------------------------------------
(* Option<T>                                                               *)

None == [some |-> FALSE]
Some(v) == [some |-> TRUE, val |-> v]

\* Chars::next on the str s at position i
HasNext(s, i) == i < Len(s)
Peek(s, i) == s[i + 1]

TAB == "\t"

-----------------------------------------------------------------------------
(* The pattern tree.  Rc<Node> is the node value itself: the tree is       *)
(* immutable after parsing, so a shared node and a copy behave alike.      *)

CharNode(c) == [kind |-> "Char", c |-> c]
CharClassNode(elems, negated) ==
    [kind |-> "CharClass", elems |-> elems, negated |-> negated]
SeqNode(nodes) == [kind |-> "Seq", nodes |-> nodes]
AltNode(alts) == [kind |-> "Alt", alts |-> alts]
\* open is a history field: the number of pattern chars consumed when the
\* group was created (0 for the root, else the position of its '(').
GrpNode(num, alt, open) == [kind |-> "Grp", num |-> num, alt |-> alt, open |-> open]
RptNode(node) == [kind |-> "Rpt", node |-> node]

-----------------------------------------------------------------------------
(* The parser.                                                             *)

\* parse_escape_char: the restricted table, chars that map to a char
parse_escape_char(c) ==
    IF c \in {"\\", "(", ")", "[", "]", "*", "+", "^"} THEN Some(c)
    ELSE IF c = "t" THEN Some(TAB)
    ELSE None

\* CharClassNode::from_vec
from_vec(elems, negated) == CharClassNode(elems, negated)

\* parse_escape: the table used outside a character class
parse_escape(c) ==
    IF c = "s" THEN Some(from_vec({" ", TAB}, FALSE))
    ELSE IF c = "S" THEN Some(from_vec({" ", TAB}, TRUE))
    ELSE IF parse_escape_char(c).some THEN Some(CharNode(parse_escape_char(c).val))
    ELSE None

\* A parse step either panics or yields a value and the iterator after it.
Panic == [panic |-> TRUE]

\* the closure handle_escape of CharClassNode::parse
handle_escape(p, i, elems) ==
    IF HasNext(p, i)
    THEN IF parse_escape_char(Peek(p, i)).some
         THEN [panic |-> FALSE, i |-> i + 1,
               elems |-> elems \cup {parse_escape_char(Peek(p, i)).val}]
         ELSE Panic                    \* "Invalid escape."
    ELSE Panic                         \* "Expected char following escape."

\* the first char of a class: '^', ']', an escape, a literal, or nothing
class_first(p, i) ==
    IF ~HasNext(p, i) THEN Panic       \* "Unterminated char class."
    ELSE LET c == Peek(p, i) IN
         IF c = "^" THEN [panic |-> FALSE, i |-> i + 1, elems |-> {}, negated |-> TRUE]
         ELSE IF c = "]" THEN Panic    \* "Empty char class."
         ELSE IF c = "\\"
              THEN LET h == handle_escape(p, i + 1, {}) IN
                   IF h.panic THEN Panic
                   ELSE [panic |-> FALSE, i |-> h.i, elems |-> h.elems, negated |-> FALSE]
              ELSE [panic |-> FALSE, i |-> i + 1, elems |-> {c}, negated |-> FALSE]

\* the while loop of CharClassNode::parse and the checks after it
RECURSIVE class_loop(_, _, _)
class_loop(p, i, elems) ==
    IF ~HasNext(p, i) THEN Panic       \* !done: "Unterminated char class."
    ELSE LET c == Peek(p, i) IN
         IF c = "]"
         THEN IF elems = {} THEN Panic \* "Empty char class."
              ELSE [panic |-> FALSE, i |-> i + 1, elems |-> elems]
         ELSE IF c = "\\"
              THEN LET h == handle_escape(p, i + 1, elems) IN
                   IF h.panic THEN Panic ELSE class_loop(p, h.i, h.elems)
              ELSE class_loop(p, i + 1, elems \cup {c})

\* CharClassNode::parse, called with the iterator just after '['
CharClassNode_parse(p, i) ==
    LET f == class_first(p, i) IN
    IF f.panic THEN Panic
    ELSE LET l == class_loop(p, f.i, f.elems) IN
         IF l.panic THEN Panic
         ELSE [panic |-> FALSE, i |-> l.i, node |-> CharClassNode(l.elems, f.negated)]

\* GrpNode::get_seq: the last alternative, and the write through its &mut
get_seq(grp) == grp.alt.alts[Len(grp.alt.alts)]
set_seq(grp, seq) == [grp EXCEPT !.alt.alts[Len(grp.alt.alts)] = seq]

\* GrpNode::add_alt
add_alt(grp) == [grp EXCEPT !.alt.alts = Append(@, SeqNode(<<>>))]

\* SeqNode::push, push_char, push_grp, pop, clone_back
push(seq, node) == [seq EXCEPT !.nodes = Append(@, node)]
push_char(seq, c) == push(seq, CharNode(c))
push_grp(seq, grp) == push(seq, grp)
pop(seq) ==
    IF Len(seq.nodes) = 0 THEN [node |-> None, seq |-> seq]
    ELSE [node |-> Some(seq.nodes[Len(seq.nodes)]),
          seq |-> [seq EXCEPT !.nodes = SubSeq(@, 1, Len(@) - 1)]]
\* nodes.get(len - 1): with len = 0 the subtraction overflows usize, which
\* panics in a checked build and wraps to an index out of range (None, and
\* so the caller's expect panics) otherwise; both builds end in a panic.
clone_back(seq) ==
    IF Len(seq.nodes) = 0 THEN None
    ELSE Some(seq.nodes[Len(seq.nodes)])

\* the '*' arm: pop the previous node and nest it under a repeat node
star_pop(grp) ==
    LET q == pop(get_seq(grp)) IN
    IF ~q.node.some THEN Panic         \* expect("* requires a preceeding node.")
    ELSE [panic |-> FALSE, grp |-> set_seq(grp, push(q.seq, RptNode(q.node.val)))]

arm_star(grp) == star_pop(grp)

\* the '+' arm with the previous node popped, as '*' does
plus_pop(grp) == star_pop(grp)

\* the '+' arm: clone the previous node and add a RptNode after it
arm_plus(grp) ==
    LET n == clone_back(get_seq(grp)) IN
    IF ~n.some THEN Panic              \* expect("+ requires a preceeding node.")
    ELSE [panic |-> FALSE, grp |-> set_seq(grp, push(get_seq(grp), RptNode(n.val)))]

\* a ')' that ends the root group instead of panicking
close_lenient(root, grp, i, num) == [panic |-> FALSE, grp |-> grp, i |-> i, num |-> num]

\* the ')' arm: an error in the root group, the end of a nested one
arm_close(root, grp, i, num) ==
    IF root THEN Panic                 \* "Extra ')'."
    ELSE [panic |-> FALSE, grp |-> grp, i |-> i, num |-> num]

\* a group counter that is not advanced
next_num_stuck(num) == num

\* *num += 1
next_num(num) == num + 1

\* GrpNode::parse from position i of the pattern p, with the group under
\* construction grp: the while loop over itr.next()
RECURSIVE parse_loop(_, _, _, _, _), GrpNode_parse(_, _, _, _)
parse_loop(p, i, num, root, grp) ==
    IF ~HasNext(p, i) THEN [panic |-> FALSE, grp |-> grp, i |-> i, num |-> num]
    ELSE LET c == Peek(p, i)
             j == i + 1
         IN
         CASE c = "(" ->
                LET sub == GrpNode_parse(p, j, next_num(num), FALSE)
                IN IF sub.panic THEN Panic
                   ELSE parse_loop(p, sub.i, sub.num, root,
                                   set_seq(grp, push_grp(get_seq(grp), sub.grp)))
           [] c = "|" -> parse_loop(p, j, num, root, add_alt(grp))
           [] c = ")" -> arm_close(root, grp, j, num)
           [] c = "*" ->
                LET r == arm_star(grp) IN
                IF r.panic THEN Panic ELSE parse_loop(p, j, num, root, r.grp)
           [] c = "+" ->
                LET r == arm_plus(grp) IN
                IF r.panic THEN Panic ELSE parse_loop(p, j, num, root, r.grp)
           [] c = "[" ->
                LET r == CharClassNode_parse(p, j) IN
                IF r.panic THEN Panic
                ELSE parse_loop(p, r.i, num, root, set_seq(grp, push(get_seq(grp), r.node)))
           [] c = "\\" ->
                IF HasNext(p, j)
                THEN IF parse_escape(Peek(p, j)).some
                     THEN parse_loop(p, j + 1, num, root,
                              set_seq(grp, push(get_seq(grp), parse_escape(Peek(p, j)).val)))
                     ELSE Panic        \* "Invalid escape."
                ELSE Panic             \* "Expected char following escape."
           [] OTHER -> parse_loop(p, j, num, root, set_seq(grp, push_char(get_seq(grp), c)))

\* GrpNode::parse(itr, num, root): a group numbered *num with one empty
\* alternative, then the loop; it yields the group, the iterator and *num
GrpNode_parse(p, i, num, root) ==
    parse_loop(p, i, num, root, GrpNode(num, AltNode(<<SeqNode(<<>>)>>), i))

\* Regex::from_str: the root group, or a panic
from_str(p) == GrpNode_parse(p, 0, 0, TRUE)

-----------------------------------------------------------------------------
(* The matcher.  A call of match_chars is a frame on the stack: the node,  *)
(* the value of the iterator it was handed (itr; the callee works on the   *)
(* caller's iterator through &mut, so the caller takes the value back when *)
(* the callee returns), and the locals of the six implementations.  A node *)
(* runs from its entry, or from the return of the call it made, up to its  *)
(* next call or its own return.  mr is the one MatchResult every call      *)
(* shares.                                                                 *)
(* History fields, never read by the code: start (the iterator on entry),  *)
(* tm (the groups recorded by calls that succeeded inside a path that      *)
(* succeeded up to this call, with their values) and it (those of tm that  *)
(* were recorded inside a completed iteration of a repeat).                *)

\* MatchResult::new and BTreeMap::insert
EmptyMap == [g \in {} |-> <<>>]
Override(f, g) ==
    [x \in DOMAIN f \cup DOMAIN g |-> IF x \in DOMAIN g THEN g[x] ELSE f[x]]
insert(m, k, v) == Override(m, [x \in {k} |-> v])

Frame(node, i) ==
    [node |-> node, itr |-> i, start |-> i, st |-> "call", idx |-> 1,
     clone |-> i, out |-> <<>>, tm |-> EmptyMap, it |-> {}]

NoRet == [kind |-> "none"]

Returned(f, res, pos, tm, it) ==
    [kind |-> f.node.kind, node |-> f.node, start |-> f.start,
     res |-> res, pos |-> pos, tm |-> tm, it |-> it]

Top == stack[Len(stack)]
Rest == SubSeq(stack, 1, Len(stack) - 1)

Running(kind) == pc = "matching" /\ Len(stack) > 0 /\ Top.node.kind = kind

\* the top frame returns to its caller
Return(res, pos, tm, it) ==
    /\ stack' = Rest
    /\ ret' = Returned(Top, res, pos, tm, it)

\* the top frame, with its locals updated to f, calls match_chars on node
\* with the iterator at i
Call(f, node, i) ==
    /\ stack' = Rest \o <<[f EXCEPT !.st = "wait"], Frame(node, i)>>
    /\ ret' = NoRet

\* CharNode::match_chars: itr.next() is consumed whether or not it matches
CharNode_match_chars ==
    /\ Running("Char")
    /\ IF HasNext(subject, Top.itr)
       THEN LET c == Peek(subject, Top.itr) IN
            Return(IF c = Top.node.c THEN Some(<<c>>) ELSE None,
                   Top.itr + 1, EmptyMap, {})
       ELSE Return(None, Top.itr, EmptyMap, {})
    /\ UNCHANGED <<pattern, subject, pc, regex, itr, mr, result>>

\* CharClassNode::match_chars
CharClassNode_match_chars ==
    /\ Running("CharClass")
    /\ IF HasNext(subject, Top.itr)
       THEN LET c == Peek(subject, Top.itr)
                in_elems == c \in Top.node.elems
            IN Return(IF (Top.node.negated /\ ~in_elems) \/ (~Top.node.negated /\ in_elems)
                      THEN Some(<<c>>) ELSE None,
                      Top.itr + 1, EmptyMap, {})
       ELSE Return(None, Top.itr, EmptyMap, {})
    /\ UNCHANGED <<pattern, subject, pc, regex, itr, mr, result>>

\* the key of mr.insert(self.num, s.clone())
grp_key(num) == num

\* GrpNode::match_chars
GrpNode_match_chars ==
    /\ Running("Grp")
    /\ IF Top.st = "call"
       THEN /\ Call(Top, Top.node.alt, Top.itr)
            /\ mr' = mr
       ELSE IF ret.res.some
            THEN /\ mr' = insert(mr, grp_key(Top.node.num), ret.res.val)
                 /\ Return(ret.res, ret.pos,
                           insert(ret.tm, Top.node.num, ret.res.val), ret.it)
            ELSE /\ mr' = mr
                 /\ Return(None, ret.pos, EmptyMap, {})
    /\ UNCHANGED <<pattern, subject, pc, regex, itr, result>>

\* an alternation that hands its own iterator to the alternative
alt_shared(i, clone) == clone

\* the iterator of an alternation after an alternative failed on the clone
alt_failed(i, clone) == i

\* for alt in &self.alts: the next alternative on a fresh clone, or None
alt_next(f) ==
    IF f.idx <= Len(f.node.alts)
    THEN Call([f EXCEPT !.clone = f.itr], f.node.alts[f.idx], f.itr)
    ELSE Return(None, f.itr, EmptyMap, {})

\* AltNode::match_chars
AltNode_match_chars ==
    /\ Running("Alt")
    /\ IF Top.st = "call"
       THEN alt_next(Top)
       ELSE IF ret.res.some
            THEN Return(ret.res, ret.pos, ret.tm, ret.it)  \* itr.clone_from(&clone)
            ELSE alt_next([Top EXCEPT !.clone = ret.pos,
                                      !.itr = alt_failed(Top.itr, ret.pos),
                                      !.idx = @ + 1])
    /\ UNCHANGED <<pattern, subject, pc, regex, itr, mr, result>>

\* a repeat that leaves the iterator where the failed attempt ended
rpt_no_backtrack(i, clone) == i

\* itr.clone_from(&clone): back to the point after the last successful match
rpt_backtrack(i, clone) == clone

\* a repeat that stops after its first successful iteration
rpt_once(f, res) == res.some /\ f.out = <<>>

\* while res.is_some()
rpt_again(f, res) == res.some

\* RptNode::match_chars
RptNode_match_chars ==
    /\ Running("Rpt")
    /\ IF Top.st = "call"
       THEN Call([Top EXCEPT !.clone = Top.itr, !.out = <<>>], Top.node.node, Top.itr)
       ELSE IF rpt_again(Top, ret.res)
            THEN Call([Top EXCEPT !.itr = ret.pos, !.clone = ret.pos,
                                  !.out = @ \o ret.res.val,
                                  !.tm = Override(@, ret.tm),
                                  !.it = @ \cup ret.it \cup DOMAIN ret.tm],
                      Top.node.node, ret.pos)
            ELSE Return(Some(Top.out), rpt_backtrack(ret.pos, Top.clone), Top.tm, Top.it)
    /\ UNCHANGED <<pattern, subject, pc, regex, itr, mr, result>>

\* for n in &self.nodes: the next node on the same iterator, or Some(out)
seq_next(f) ==
    IF f.idx <= Len(f.node.nodes)
    THEN Call(f, f.node.nodes[f.idx], f.itr)
    ELSE Return(Some(f.out), f.itr, f.tm, f.it)

\* SeqNode::match_chars: no snapshot, a failure returns at once
SeqNode_match_chars ==
    /\ Running("Seq")
    /\ IF Top.st = "call"
       THEN seq_next(Top)
       ELSE IF ret.res.some
            THEN seq_next([Top EXCEPT !.itr = ret.pos, !.idx = @ + 1,
                                      !.out = @ \o ret.res.val,
                                      !.tm = Override(@, ret.tm),
                                      !.it = @ \cup ret.it])
            ELSE Return(None, ret.pos, EmptyMap, {})
    /\ UNCHANGED <<pattern, subject, pc, regex, itr, mr, result>>

\* Regex::from_str
Regex_from_str ==
    /\ pc = "new"
    /\ LET r == from_str(pattern) IN
       IF r.panic
       THEN /\ pc' = "panicked"
            /\ regex' = regex
       ELSE /\ pc' = "parsed"
            /\ regex' = r.grp
    /\ UNCHANGED <<pattern, subject, itr, stack, ret, mr, result>>

\* Regex::match_str and the head of Regex::match_chars: a fresh MatchResult
\* and the call of the root group on s.chars()
Regex_match_str ==
    /\ pc = "parsed"
    /\ pc' = "matching"
    /\ mr' = EmptyMap
    /\ itr' = 0
    /\ stack' = <<Frame(regex, 0)>>
    /\ ret' = NoRet
    /\ UNCHANGED <<pattern, subject, regex, result>>

\* a check that accepts a match of a prefix
whole_lenient(res, s, i) == res.some

\* res.is_some() && itr.count() == 0
whole(res, s, i) == res.some /\ Len(s) - i = 0

\* the tail of Regex::match_chars, once the root group has returned; count()
\* is only evaluated, and the iterator exhausted by it, after a match
Regex_match_chars ==
    /\ pc = "matching"
    /\ Len(stack) = 0
    /\ pc' = "done"
    /\ itr' = IF ret.res.some THEN Len(subject) ELSE ret.pos
    /\ result' = IF whole(ret.res, subject, ret.pos) THEN Some(mr) ELSE None
    /\ UNCHANGED <<pattern, subject, regex, stack, ret, mr>>

\* the steps of one call of match_str
MatchStep ==
    \/ Regex_match_str
    \/ CharNode_match_chars
    \/ CharClassNode_match_chars
    \/ GrpNode_match_chars
    \/ AltNode_match_chars
    \/ RptNode_match_chars
    \/ SeqNode_match_chars
    \/ Regex_match_chars

Next ==
    \/ Regex_from_str
    \/ MatchStep

-----------------------------------------------------------------------------
(* Inputs.                                                                 *)

Strs(A, n) == UNION {[1..k -> A] : k \in 0..n}

PatAlphabet == {"a", "b", "(", ")", "|", "*", "+"}
SubjAlphabet == {"a", "b"}
ParseAlphabet == {"a", "s", "(", ")", "|", "*", "+", "[", "]", "^", "\\"}

ShortPatterns == Strs(PatAlphabet, MaxPatLen)
ShortSubjects == Strs(SubjAlphabet, MaxSubjLen)

\* the patterns of the tests of lib.rs
P_star == <<"(", "a", "*", ")", "b", "c">>
P_plus == <<"(", "a", "+", ")", "b">>
P_groups == <<"(", "a", "(", "b", "|", "c", ")", ")", "b",
              "(", "(", "c", "|", "d", ")", "*", ")">>
P_alts == <<"(", "a", "(", "b", "|", "c", ")", "*", ")", "|",
            "(", "(", "c", "|", "d", ")", "*", ")">>
P_char_class == <<"(", "[", "a", "b", "c", "]", ")", "(", "[", "x", "y", "z", "]", ")">>
P_negated == <<"[", "^", "z", "]">>
P_escape_escape == <<"\\", "\\">>
P_tab == <<"\\", "t">>
P_class_escape == <<"[", "\\", "^", "]">>
\* further patterns: repeats of groups, of repeats and of classes
P_greedy == <<"(", "a", "*", ")", "a">>
P_rpt_grp == <<"(", "a", "(", "b", "|", "c", ")", ")", "*">>
P_rpt_class == <<"(", "(", "[", "a", "b", "]", ")", "c", ")", "*", "b">>
P_alt_grp == <<"(", "a", ")", "b", "|", "a", "c">>
P_rpt_zero == <<"(", "(", "a", ")", "b", ")", "*", "a">>
P_rpt_rpt == <<"a", "*", "*">>
P_rpt_empty == <<"(", ")", "*">>
P_rpt_grp_rpt == <<"(", "a", "*", ")", "*">>
P_class_plus == <<"[", "a", "b", "]", "+">>
P_space_plus == <<"\\", "s", "+", "a">>

TestPatterns ==
    {P_star, P_plus, P_groups, P_alts, P_char_class, P_negated,
     P_escape_escape, P_tab, P_class_escape}
MorePatterns ==
    {P_greedy, P_rpt_grp, P_rpt_class, P_alt_grp, P_rpt_zero,
     P_rpt_rpt, P_rpt_empty, P_rpt_grp_rpt, P_class_plus, P_space_plus}

TestSubjects ==
    {<<"a", "a", "b", "c">>, <<"a", "a", "a", "b">>,
     <<"a", "c", "b", "c", "d", "c", "d", "d">>, <<"c", "d", "c", "d", "d">>,
     <<"a", "z">>, <<"z">>, <<"\\">>, <<TAB>>, <<"^">>}
MoreSubjects ==
    {<<"a", "b", "a", "c">>, <<"a", "c", "b">>, <<"a", "c">>, <<" ", TAB, "a">>}

Inputs ==
    (ShortPatterns \X ShortSubjects)
    \cup ((TestPatterns \cup MorePatterns)
          \X (ShortSubjects \cup TestSubjects \cup MoreSubjects))

InitWith(in) ==
    /\ \E ps \in in : pattern = ps[1] /\ subject = ps[2]
    /\ pc = "new"
    /\ regex = None
    /\ itr = 0
    /\ stack = <<>>
    /\ ret = NoRet
    /\ mr = EmptyMap
    /\ result = None

\* patterns up to MaxPatLen and the named patterns, matched
Init == InitWith(Inputs)
Spec == Init /\ [][Next]_vars

\* the parser alone, on every pattern up to MaxParseLen
ParseInit == InitWith(Strs(ParseAlphabet, MaxParseLen) \X {<<>>})
ParseSpec == ParseInit /\ [][Regex_from_str]_vars

\* the named patterns, matched; match_str runs to completion on the thread
\* of its caller, so a step of it that can be taken is taken
FairInit == InitWith((TestPatterns \cup MorePatterns) \X Strs(SubjAlphabet, MaxFairLen))
FairSpec == FairInit /\ [][Next]_vars /\ WF_vars(MatchStep)

-----------------------------------------------------------------------------
(* Reading a pattern without building a tree: the kind of every char.      *)

\* the kind of the char c read in mode m, and the mode after it
Token(m, c) ==
    CASE m = "top" ->
           CASE c = "(" -> [kind |-> "open", mode |-> "top"]
             [] c = ")" -> [kind |-> "close", mode |-> "top"]
             [] c = "|" -> [kind |-> "bar", mode |-> "top"]
             [] c = "*" -> [kind |-> "star", mode |-> "top"]
             [] c = "+" -> [kind |-> "plus", mode |-> "top"]
             [] c = "[" -> [kind |-> "lb", mode |-> "first"]
             [] c = "\\" -> [kind |-> "esc", mode |-> "escaped"]
             [] OTHER -> [kind |-> "lit", mode |-> "top"]
      [] m = "escaped" -> [kind |-> "escd", mode |-> "top"]
      [] m = "first" ->
           CASE c = "^" -> [kind |-> "neg", mode |-> "class"]
             [] c = "]" -> [kind |-> "rb", mode |-> "top"]
             [] c = "\\" -> [kind |-> "cesc", mode |-> "cescaped"]
             [] OTHER -> [kind |-> "clit", mode |-> "class"]
      [] m = "class" ->
           CASE c = "]" -> [kind |-> "rb", mode |-> "top"]
             [] c = "\\" -> [kind |-> "cesc", mode |-> "cescaped"]
             [] OTHER -> [kind |-> "clit", mode |-> "class"]
      [] m = "cescaped" -> [kind |-> "cescd", mode |-> "class"]

RECURSIVE LexFrom(_, _, _)
LexFrom(p, i, m) ==
    IF i > Len(p) THEN <<>>
    ELSE <<Token(m, p[i]).kind>> \o LexFrom(p, i + 1, Token(m, p[i]).mode)

Lex(p) == LexFrom(p, 1, "top")

Count(lx, kind, n) == Cardinality({j \in 1..n : lx[j] = kind})

EscapesInClass == {"\\", "(", ")", "[", "]", "*", "+", "^", "t"}
EscapesOutside == EscapesInClass \cup {"s", "S"}

\* the fatal conditions of a pattern, each at a char i of it
ExtraClose(p, lx, i) ==
    lx[i] = "close" /\ Count(lx, "open", i - 1) <= Count(lx, "close", i - 1)
NothingToRepeat(p, lx, i) ==
    lx[i] \in {"star", "plus"} /\ (i = 1 \/ lx[i - 1] \in {"open", "bar"})
EmptyClass(p, lx, i) ==
    lx[i] = "rb" /\ (lx[i - 1] = "lb" \/ (lx[i - 1] = "neg" /\ lx[i - 2] = "lb"))
UnterminatedClass(p, lx, i) ==
    lx[i] = "lb" /\ \A j \in (i + 1)..Len(p) : lx[j] # "rb"
BadEscape(p, lx, i) ==
    \/ lx[i] = "esc" /\ (i = Len(p) \/ p[i + 1] \notin EscapesOutside)
    \/ lx[i] = "cesc" /\ (i = Len(p) \/ p[i + 1] \notin EscapesInClass)

Fatal(p) ==
    LET lx == Lex(p) IN
    \E i \in 1..Len(p) :
        \/ ExtraClose(p, lx, i)
        \/ NothingToRepeat(p, lx, i)
        \/ EmptyClass(p, lx, i)
        \/ UnterminatedClass(p, lx, i)
        \/ BadEscape(p, lx, i)

\* the group nodes of a tree
RECURSIVE Groups(_)
Groups(n) ==
    CASE n.kind = "Grp" -> {n} \cup Groups(n.alt)
      [] n.kind = "Alt" -> UNION {Groups(n.alts[k]) : k \in 1..Len(n.alts)}
      [] n.kind = "Seq" -> UNION {Groups(n.nodes[k]) : k \in 1..Len(n.nodes)}
      [] n.kind = "Rpt" -> Groups(n.node)
      [] OTHER -> {}

-----------------------------------------------------------------------------
(* The claims.                                                             *)

Done == pc = "done"
Matched == pc = "done" /\ result.some

\* C1: whenever match_str returns Some(map), the map has key 0 and its value
\* is the whole subject; no call of a nested group carries the number 0.
C1_GroupZero ==
    /\ Matched => 0 \in DOMAIN result.val /\ result.val[0] = subject
    /\ \A k \in 2..Len(stack) : stack[k].node.kind = "Grp" => stack[k].node.num # 0

C1_Witness ==
    /\ Matched
    /\ Len(subject) >= 2
    /\ Cardinality(DOMAIN result.val) >= 2

\* C2: match_str returns Some exactly when the root group matched and left
\* no char of the subject unconsumed; a match of a proper prefix gives None.
C2_WholeString ==
    Done => /\ result.some <=> (ret.res.some /\ ret.pos = Len(subject))
            /\ result.some => result.val = mr

C2_Witness == Done /\ ret.res.some /\ ret.pos < Len(subject) /\ ~result.some

\* C3: for every accepted pattern and every subject, match_str eventually
\* returns.
C3_Terminates == (pc = "parsed") ~> (pc = "done")

\* C4: the returned map has an entry only for a group that matched inside
\* a selected alternative and a completed iteration: none for a group of an
\* alternative that was tried and not selected or of a repeat that completed
\* no iteration.
C4_NoEntryOffPath == Matched => DOMAIN result.val \subseteq DOMAIN ret.tm

\* C5: in the returned map, the value of a group inside a repeat that
\* completed an iteration is what the group matched in the last iteration
\* that completed, not what it matched in an attempt that was rolled back.
C5_LastCompletedIteration ==
    Matched => \A g \in ret.it : result.val[g] = ret.tm[g]

LeafMatches(n, c) ==
    IF n.kind = "Char" THEN c = n.c
    ELSE (n.negated /\ c \notin n.elems) \/ (~n.negated /\ c \in n.elems)

\* a repeat returns Some(the text between its start and the iterator); a
\* repeat of a char or a class has taken every char of the maximal run
C6_Greedy ==
    ret.kind = "Rpt" =>
      /\ ret.res.some
      /\ ret.res.val = SubSeq(subject, ret.start + 1, ret.pos)
      /\ ret.node.node.kind \in {"Char", "CharClass"} =>
           /\ \A k \in (ret.start + 1)..ret.pos : LeafMatches(ret.node.node, subject[k])
           /\ ret.pos < Len(subject) => ~LeafMatches(ret.node.node, subject[ret.pos + 1])

\* a sequence whose node failed returns None in the same step
C6_NoRetry ==
    (Running("Seq") /\ Top.st = "wait" /\ ~ret.res.some)
        => (stack' = Rest /\ ret'.kind = "Seq" /\ ~ret'.res.some)

C6_Examples ==
    /\ Done /\ pattern \in {P_greedy, <<"a", "*", "a">>} => ~result.some
    /\ Done /\ pattern = P_star /\ subject = <<"a", "a", "b", "c">>
         => result = Some((0 :> subject) @@ (1 :> <<"a", "a">>))

\* C6: a repeat always succeeds with the maximal run of consecutive
\* iterations and is not retried with fewer: a sequence fails as soon as a
\* later node fails; (a*)a matches nothing, (a*)bc on aabc gives 0: aabc,
\* 1: aa.
C6_GreedyNoBacktrack == [](C6_Greedy /\ C6_Examples) /\ [][C6_NoRetry]_vars

C6_Witness ==
    /\ Done
    /\ pattern = P_greedy
    /\ subject = <<"a", "a", "a">>
    /\ ~result.some

\* C7: from_str panics on every pattern with a ')' in the outermost group,
\* a '*' or '+' in an empty alternative, an empty or unterminated character
\* class, or an escape that is not in the table or is the last char.
C7_FatalParseErrors == (pc # "new" /\ Fatal(pattern)) => pc = "panicked"

C7_Witness ==
    /\ pc = "panicked"
    /\ Len(pattern) = 3
    /\ LET lx == Lex(pattern) IN UnterminatedClass(pattern, lx, 2)

GroupFreeAtoms ==
    {<<"a">>, <<"b">>, <<"[", "a", "b", "]">>, <<"\\", "s">>,
     <<"a", "*">>, <<"\\", "s", "*">>}
Splits(p) == {k \in 0..Len(p) : ~from_str(SubSeq(p, 1, k)).panic}

\* X+ at the end of a prefix that parses, followed by no further group
PlusForms(p) ==
    {f \in [pre : {SubSeq(p, 1, k) : k \in Splits(p)}, x : GroupFreeAtoms,
            rest : {SubSeq(p, k, Len(p)) : k \in 1..(Len(p) + 1)}] :
        /\ p = f.pre \o f.x \o <<"+">> \o f.rest
        /\ \A k \in 1..Len(f.rest) : f.rest[k] # "("}

\* C8: X+ is parsed to the tree of XX*, so both match alike; one occurrence
\* is mandatory: (a+)b on aaab gives 0: aaab, 1: aaa, and None on b.
C8_PlusIsOneThenStar ==
    /\ pc \in {"parsed", "panicked"} =>
         \A f \in PlusForms(pattern) :
            LET r == from_str(f.pre \o f.x \o f.x \o <<"*">> \o f.rest) IN
            /\ r.panic <=> (pc = "panicked")
            /\ ~r.panic => regex = r.grp
    /\ Done /\ pattern = P_plus /\ subject = <<"a", "a", "a", "b">>
         => result = Some((0 :> subject) @@ (1 :> <<"a", "a", "a">>))
    /\ Done /\ pattern = P_plus /\ subject = <<"b">> => ~result.some
    /\ Matched /\ pattern \in {<<"a", "+">>, P_class_plus} => Len(subject) >= 1

C8_Witness ==
    /\ Matched
    /\ pattern = P_plus
    /\ subject = <<"a", "a", "a", "b">>

\* C9 as stated: whenever match_chars of any node returns None, the
\* iterator is where it was at the start of the call.
C9_RestoredOnFailure ==
    (ret.kind # "none" /\ ~ret.res.some) => ret.pos = ret.start

\* C9 amended: on None an alternation or a group leaves the iterator at its
\* start; a char or a class has consumed the next char if there was one; a
\* sequence leaves it where its failing node left it, at or past its start;
\* a repeat never returns None.
C9_RestoredByAltAndGrp ==
    (ret.kind # "none" /\ ~ret.res.some) =>
      /\ ret.kind \in {"Alt", "Grp"} => ret.pos = ret.start
      /\ ret.kind \in {"Char", "CharClass"} =>
           ret.pos = IF ret.start < Len(subject) THEN ret.start + 1 ELSE ret.start
      /\ ret.kind = "Seq" => ret.pos >= ret.start
      /\ ret.kind # "Rpt"

C9_Witness ==
    /\ ret.kind = "Seq"
    /\ ~ret.res.some
    /\ ret.pos >= ret.start + 2

\* C10: the root group has number 0 and the group opened by the k-th
\* group-opening '(' of the pattern has number k.
C10_GroupNumbering ==
    pc = "parsed" =>
      LET lx == Lex(pattern) IN
      /\ regex.num = 0 /\ regex.open = 0
      /\ \A g \in Groups(regex) : g.num = Count(lx, "open", g.open)
      /\ {g.num : g \in Groups(regex)} = 0..Count(lx, "open", Len(pattern))

C10_Witness ==
    /\ pc = "parsed"
    /\ \E g \in Groups(regex) : g.num = 2 /\ g.open = 4

====
